---- MODULE Spec2Model ----
(***************************************************************************)
(* Adventure AI: the client-side game state machine (hooks/useGameState),  *)
(* the progression engine (services/gameService), the content-fetch        *)
(* orchestrator of App.tsx and the QuizView timers that call completeTrial.*)
(*                                                                         *)
(* One action is one event-loop task together with the React commit that   *)
(* follows it: the handler's setState calls, then the effects whose        *)
(* dependencies changed (Render).  Promise continuations and setTimeout    *)
(* callbacks are tasks of their own.                                       *)
(***************************************************************************)
EXTENDS Integers, Sequences, FiniteSets, TLC

\* ---------------------------------------------------------------- bounds
MaxTrials == 2          \* answers to a last question, each ending in onComplete
MaxApiTrials == 1       \* the same, in SpecApi
MaxClock == 1           \* Date.now() ranges over 0..MaxClock
MaxTimers == 2          \* QuizView timeouts pending at a time
MaxXp == 1050           \* totalXp given to the progression engine ranges over 0..MaxXp
MaxQuestions == 4       \* quiz scores and lengths given to it range over 0..MaxQuestions
MaxLevel == 55          \* levels given to getPlayerRank range over 1..MaxLevel

\* ------------------------------------------------------------- constants
ADVENTURE_COMPLETE == 50
QUIZ_CORRECT_ANSWER == 10
PERFECT_QUIZ_BONUS == 25
XP_PER_LEVEL == 100
QuizLen == 3            \* questions generateQuiz asks the provider for

Null == "null"                   \* null of a string-valued field
NullRec == [null |-> TRUE]       \* null of an object-valued field

Topics == {"Volcanoes", "Earthquakes"}
Regions == {"elemental_forge"}
RegionTopics(r) == Topics
Uid == "fake_uid"

\* ------------------------------------------------- progression engine
xpForLevel(level) == level * XP_PER_LEVEL

RECURSIVE totalXpFrom(_, _)
totalXpFrom(i, level) == IF i < level THEN xpForLevel(i) + totalXpFrom(i + 1, level) ELSE 0

totalXpForLevel(level) == totalXpFrom(1, level)

\* A variant whose loop stops when the remaining XP equals the threshold.
RECURSIVE levelLoopStrict(_, _)
levelLoopStrict(level, xpRemaining) ==
    IF xpRemaining > xpForLevel(level)
    THEN levelLoopStrict(level + 1, xpRemaining - xpForLevel(level))
    ELSE level

RECURSIVE levelLoop(_, _)
levelLoop(level, xpRemaining) ==
    IF xpRemaining >= xpForLevel(level)
    THEN levelLoop(level + 1, xpRemaining - xpForLevel(level))
    ELSE level

\* A variant that takes the level from the XP within the current level
\* (the player's xp field) instead of the total.
calculateLevelOfLevelXp(totalXp) ==
    levelLoop(1, totalXp - totalXpForLevel(levelLoop(1, totalXp)))

calculateLevel(totalXp) == levelLoop(1, totalXp)

\* A variant that divides the total XP, not the XP within the level.
xpProgressOfTotal(totalXp) ==
    [num |-> totalXp, den |-> xpForLevel(calculateLevel(totalXp))]

\* The quotient xpInCurrentLevel / xpNeededForNextLevel, kept as the pair
\* of its numerator and denominator.
xpProgress(totalXp) ==
    LET level == calculateLevel(totalXp)
        xpAtLevelStart == totalXpForLevel(level)
        xpInCurrentLevel == totalXp - xpAtLevelStart
        xpNeededForNextLevel == xpForLevel(level)
    IN [num |-> xpInCurrentLevel, den |-> xpNeededForNextLevel]

\* A variant that takes every level to be XP_PER_LEVEL long.
currentLevelXpFlat(totalXp) == totalXp % XP_PER_LEVEL

currentLevelXp(totalXp) == totalXp - totalXpForLevel(calculateLevel(totalXp))

xpToNextLevel(totalXp) == xpForLevel(calculateLevel(totalXp))

\* A variant that pays for the questions asked, not for the correct answers.
calculateQuizXpOfTotal(correctAnswers, totalQuestions) ==
    totalQuestions * QUIZ_CORRECT_ANSWER
      + (IF correctAnswers = totalQuestions THEN PERFECT_QUIZ_BONUS ELSE 0)

calculateQuizXp(correctAnswers, totalQuestions) ==
    correctAnswers * QUIZ_CORRECT_ANSWER
      + (IF correctAnswers = totalQuestions THEN PERFECT_QUIZ_BONUS ELSE 0)

calculateAdventureXp(quizCorrect, quizTotal) ==
    ADVENTURE_COMPLETE + calculateQuizXp(quizCorrect, quizTotal)

\* A variant whose comparisons are strict: a rank begins one level late.
getPlayerRankAbove(level) ==
    IF level > 50 THEN "Legendary Scholar"
    ELSE IF level > 40 THEN "Master Explorer"
    ELSE IF level > 30 THEN "Grand Adventurer"
    ELSE IF level > 20 THEN "Seasoned Traveler"
    ELSE IF level > 15 THEN "Skilled Seeker"
    ELSE IF level > 10 THEN "Proven Pathfinder"
    ELSE IF level > 5 THEN "Eager Apprentice"
    ELSE "Novice Adventurer"

getPlayerRank(level) ==
    IF level >= 50 THEN "Legendary Scholar"
    ELSE IF level >= 40 THEN "Master Explorer"
    ELSE IF level >= 30 THEN "Grand Adventurer"
    ELSE IF level >= 20 THEN "Seasoned Traveler"
    ELSE IF level >= 15 THEN "Skilled Seeker"
    ELSE IF level >= 10 THEN "Proven Pathfinder"
    ELSE IF level >= 5 THEN "Eager Apprentice"
    ELSE "Novice Adventurer"

\* constants.ts: the rank titles by the level at which each begins.
LEVEL_TITLES ==
    (1 :> "Novice Adventurer") @@ (5 :> "Eager Apprentice") @@
    (10 :> "Proven Pathfinder") @@ (15 :> "Skilled Seeker") @@
    (20 :> "Seasoned Traveler") @@ (30 :> "Grand Adventurer") @@
    (40 :> "Master Explorer") @@ (50 :> "Legendary Scholar")

\* A variant that adds the gain to xp and leaves level alone.
applyXpIncrementing(player, xpGained) ==
    [player EXCEPT !.xp = player.xp + xpGained, !.totalXp = player.totalXp + xpGained]

\* A variant that adds the gain to the XP within the level, not to the total.
applyXpToLevelXp(player, xpGained) ==
    LET newTotalXp == player.xp + xpGained
    IN [player EXCEPT !.level = calculateLevel(newTotalXp),
                      !.xp = currentLevelXp(newTotalXp),
                      !.totalXp = newTotalXp]

applyXpToPlayer(player, xpGained) ==
    LET newTotalXp == player.totalXp + xpGained
    IN [player EXCEPT !.level = calculateLevel(newTotalXp),
                      !.xp = currentLevelXp(newTotalXp),
                      !.totalXp = newTotalXp]

\* topic.toLowerCase().replace(/[^a-z0-9]/g, '_').slice(0, 30)
sanitizedTopic(topic) ==
    CASE topic = "Volcanoes" -> "volcanoes"
      [] topic = "Earthquakes" -> "earthquakes"
      [] OTHER -> topic

generateAdventureId(topic, timestamp) == <<"adv", sanitizedTopic(topic), timestamp>>

createCompletedAdventure(topic, title, quizScore, quizTotal, timestamp) ==
    [id |-> generateAdventureId(topic, timestamp),
     topic |-> topic,
     title |-> title,
     completedAt |-> timestamp,
     quizScore |-> quizScore,
     quizTotal |-> quizTotal,
     xpEarned |-> calculateAdventureXp(quizScore, quizTotal)]

\* ------------------------------------------------------ external data
\* The lesson the content provider returns for a topic, and the quiz it
\* returns for a lesson's content.
LessonFor(topic) == [title |-> <<"title", topic>>, content |-> <<"content", topic>>]
QuizFor(content) == [about |-> content, length |-> QuizLen]

\* A stored record that parses to null: fakeSignIn resolves without a player.
StoredNull == [json |-> "null"]

\* The player fakeSignIn creates when the store holds none.
newPlayer == [uid |-> Uid, level |-> 1, xp |-> 0, totalXp |-> 0, completedAdventures |-> <<>>]

\* ---------------------------------------------------------------- state
VARIABLES
    mounted,        \* the mount effect of useGameState has run
    state,          \* GameState of useGameState
    isFetchingRef,  \* App: isFetchingRef.current
    lastTopicRef,   \* App: lastTopicRef.current
    fetches,        \* fetchContent calls in flight (awaiting generateLesson / generateQuiz)
    loginTask,      \* login call awaiting fakeSignIn: "none", "valid" or "invalid" credentials
    quizView,       \* local state of the mounted QuizView, NullRec when none is mounted
    timers,         \* pending setTimeout chains of QuizView.handleAnswerSelect, oldest first
    trials,         \* completeTrial calls awaiting updatePlayerData, oldest first
    session,        \* localStorage[STORAGE_KEY]
    store,          \* the player record of the persistence gateway, NullRec when none
    now,            \* the latest reading of Date.now()
    lessonCalls,    \* history: generateLesson calls made for the current topic activation
    quizCalls,      \* history: generateQuiz calls made for the current topic activation
    maxTotalXp,     \* history: greatest totalXp observed on the player
    completions,    \* history: answers given to a last question so far
    returnedEarly,  \* history: a completeTrial call has returned at its precondition check
    engine          \* a call of a gameService function: its name, arguments and result

gameVars == <<mounted, state, isFetchingRef, lastTopicRef, fetches, loginTask, quizView,
              timers, trials, session, store, now, lessonCalls, quizCalls, maxTotalXp,
              completions, returnedEarly>>

vars == <<gameVars, engine>>

GameViews == {"title", "login", "world_map", "collection", "quest_intro",
              "adventure", "trial", "victory"}

initialState ==
    [player |-> NullRec, isAuthenticated |-> FALSE, authLoading |-> TRUE, authError |-> Null,
     currentView |-> "title",
     activeRegion |-> Null, activeTopic |-> Null, activeLesson |-> NullRec,
     activeQuiz |-> NullRec, quizScore |-> 0,
     isGeneratingContent |-> FALSE, contentError |-> Null,
     xpEarned |-> 0, leveledUp |-> FALSE, previousLevel |-> 1]

NoSession == [kind |-> "none"]
SavedSession(player) == [kind |-> "player", player |-> player]

\* What an earlier page load can have left in the browser: nothing, an
\* unparsable snapshot, a snapshot without a player, or a signed-in player;
\* and a store whose record for the player is null.
InitStorage ==
    { [session |-> NoSession, store |-> NullRec],
      [session |-> NoSession, store |-> StoredNull],
      [session |-> [kind |-> "corrupt"], store |-> NullRec],
      [session |-> [kind |-> "object"], store |-> NullRec],
      [session |-> SavedSession(newPlayer), store |-> newPlayer] }

\* No call of the progression engine, and the calls with their arguments.
NoCall == [fn |-> "none", args |-> <<>>, done |-> FALSE, result |-> 0]
Call(fn, args) == [fn |-> fn, args |-> args, done |-> FALSE, result |-> 0]
EngineCalls ==
    { Call(fn, <<totalXp>>) :
        fn \in {"calculateLevel", "xpProgress", "currentLevelXp", "xpToNextLevel"},
        totalXp \in 0..MaxXp }
    \cup { Call(fn, <<correct, total>>) :
             fn \in {"calculateQuizXp", "calculateAdventureXp"},
             correct \in 0..MaxQuestions, total \in 0..MaxQuestions }
    \cup { Call("getPlayerRank", <<level>>) : level \in 1..MaxLevel }

InitGame ==
    /\ mounted = FALSE
    /\ state = initialState
    /\ isFetchingRef = FALSE
    /\ lastTopicRef = Null
    /\ fetches = {}
    /\ loginTask = "none"
    /\ quizView = NullRec
    /\ timers = <<>>
    /\ trials = <<>>
    /\ \E st \in InitStorage : session = st.session /\ store = st.store
    /\ now = 0
    /\ lessonCalls = 0
    /\ quizCalls = 0
    /\ maxTotalXp = 0
    /\ completions = 0
    /\ returnedEarly = FALSE

Init == InitGame /\ engine = NoCall

\* ------------------------------------------------- useGameState actions
\* Each is the updater the action hands to setState, applied to prev.
loginStart(prev) == [prev EXCEPT !.authLoading = TRUE, !.authError = Null]

\* A variant that leaves currentView as it is.
loginSuccessNoView(prev, player) ==
    [prev EXCEPT !.player = player, !.isAuthenticated = TRUE, !.authLoading = FALSE]

loginSuccess(prev, player) ==
    [prev EXCEPT !.player = player, !.isAuthenticated = TRUE, !.authLoading = FALSE,
                 !.currentView = "world_map"]

loginFailure(prev, message) == [prev EXCEPT !.authLoading = FALSE, !.authError = message]

logout(prev) ==
    [prev EXCEPT !.player = NullRec, !.isAuthenticated = FALSE, !.currentView = "title",
                 !.activeRegion = Null, !.activeTopic = Null, !.activeLesson = NullRec,
                 !.activeQuiz = NullRec]

setView(prev, view) == [prev EXCEPT !.currentView = view]

startFromTitle(prev) ==
    [prev EXCEPT !.currentView = IF prev.isAuthenticated THEN "world_map" ELSE "login"]

selectRegion(prev, region) == [prev EXCEPT !.activeRegion = region, !.currentView = "quest_intro"]

\* A variant that keeps the content error of the quest before.
startQuestKeepsError(prev, topic) ==
    [prev EXCEPT !.activeTopic = topic, !.activeLesson = NullRec, !.activeQuiz = NullRec,
                 !.isGeneratingContent = TRUE, !.currentView = "adventure"]

startQuest(prev, topic) ==
    [prev EXCEPT !.activeTopic = topic, !.activeLesson = NullRec, !.activeQuiz = NullRec,
                 !.isGeneratingContent = TRUE, !.contentError = Null,
                 !.currentView = "adventure"]

\* A variant that leaves isGeneratingContent as it is.
setLessonContentOnly(prev, lesson, quiz) ==
    [prev EXCEPT !.activeLesson = lesson, !.activeQuiz = quiz]

setLessonContent(prev, lesson, quiz) ==
    [prev EXCEPT !.activeLesson = lesson, !.activeQuiz = quiz, !.isGeneratingContent = FALSE]

\* A variant that leaves isGeneratingContent as it is.
setContentErrorOnly(prev, error) == [prev EXCEPT !.contentError = error]

setContentError(prev, error) ==
    [prev EXCEPT !.isGeneratingContent = FALSE, !.contentError = error]

startTrial(prev) == [prev EXCEPT !.currentView = "trial", !.quizScore = 0]

returnToMap(prev) ==
    [prev EXCEPT !.currentView = "world_map", !.activeRegion = Null, !.activeTopic = Null,
                 !.activeLesson = NullRec, !.activeQuiz = NullRec,
                 !.xpEarned = 0, !.leveledUp = FALSE]

viewCollection(prev) == [prev EXCEPT !.currentView = "collection"]

\* A variant that reads previousLevel after the XP is applied.
completeTrialCallLevelAfter(closure, score, total, timestamp) ==
    IF closure.player = NullRec \/ closure.activeTopic = Null \/ closure.activeLesson = NullRec
    THEN NullRec
    ELSE LET adventure == createCompletedAdventure(closure.activeTopic,
                              closure.activeLesson.title, score, total, timestamp)
             playerWithXp == applyXpToPlayer(closure.player, adventure.xpEarned)
             updatedPlayer == [playerWithXp EXCEPT !.completedAdventures =
                                  Append(playerWithXp.completedAdventures, adventure)]
         IN [updatedPlayer |-> updatedPlayer, previousLevel |-> updatedPlayer.level,
             adventure |-> adventure, score |-> score]

\* completeTrial up to its await: the closure's state is the render's that
\* handed the callback out.  NullRec when the precondition check returns.
completeTrialCall(closure, score, total, timestamp) ==
    IF closure.player = NullRec \/ closure.activeTopic = Null \/ closure.activeLesson = NullRec
    THEN NullRec
    ELSE LET previousLevel == closure.player.level
             adventure == createCompletedAdventure(closure.activeTopic,
                              closure.activeLesson.title, score, total, timestamp)
             playerWithXp == applyXpToPlayer(closure.player, adventure.xpEarned)
             updatedPlayer == [playerWithXp EXCEPT !.completedAdventures =
                                  Append(playerWithXp.completedAdventures, adventure)]
         IN [updatedPlayer |-> updatedPlayer, previousLevel |-> previousLevel,
             adventure |-> adventure, score |-> score]

\* completeTrial after its await.
completeTrialApply(prev, t) ==
    [prev EXCEPT !.player = t.updatedPlayer, !.quizScore = t.score,
                 !.xpEarned = t.adventure.xpEarned,
                 !.leveledUp = (t.updatedPlayer.level > t.previousLevel),
                 !.previousLevel = t.previousLevel,
                 !.currentView = "victory"]

\* ------------------------------------------------------- React commit
\* What App renders (renderGameView), as far as it decides which callbacks
\* the user can reach.
UiReady(s) == mounted /\ ~s.authLoading

TitleShown(s) == UiReady(s) /\ s.currentView = "title"
LoginShown(s) == UiReady(s) /\ s.currentView = "login"
WorldMapShown(s) == UiReady(s) /\ s.currentView = "world_map" /\ s.player # NullRec
QuestDialogShown(s) ==
    UiReady(s) /\ s.currentView = "quest_intro" /\ s.player # NullRec /\ s.activeRegion # Null
AdventureShown(s) == UiReady(s) /\ s.currentView = "adventure" /\ s.activeTopic # Null
ContentPending(s) ==
    s.isGeneratingContent \/ s.activeLesson = NullRec \/ s.activeQuiz = NullRec
ErrorBoxShown(s) == AdventureShown(s) /\ ContentPending(s) /\ s.contentError # Null
\* A variant that offers the lesson view, and its trial button, while the
\* content is still pending.
LessonViewWhilePending(s) == AdventureShown(s)

LessonViewShown(s) == AdventureShown(s) /\ ~ContentPending(s)
QuizViewShown(s) ==
    UiReady(s) /\ s.currentView = "trial" /\ s.activeTopic # Null /\ s.activeQuiz # NullRec
VictoryShown(s) ==
    /\ UiReady(s) /\ s.currentView = "victory"
    /\ s.player # NullRec /\ s.activeTopic # Null /\ s.activeLesson # NullRec
CollectionShown(s) == UiReady(s) /\ s.currentView = "collection" /\ s.player # NullRec

\* useState initialisers of QuizView.
FreshQuizView(quiz) ==
    [currentQuestionIndex |-> 0,
     selectedAnswers |-> [i \in 0..(quiz.length - 1) |-> "none"],
     showFeedback |-> FALSE]

\* A variant without the guard on isFetchingRef.
FetchEffectIgnoresFlag(old, new, fetching, lastTopic) ==
    /\ old.activeTopic # new.activeTopic \/ old.isGeneratingContent # new.isGeneratingContent
    /\ new.activeTopic # Null /\ new.isGeneratingContent
    /\ ~(new.activeLesson # NullRec /\ new.activeQuiz # NullRec)
    /\ lastTopic # new.activeTopic

\* The fetch effect of App: its dependencies changed and no guard returns.
FetchEffectRuns(old, new, fetching, lastTopic) ==
    /\ old.activeTopic # new.activeTopic \/ old.isGeneratingContent # new.isGeneratingContent
    /\ new.activeTopic # Null /\ new.isGeneratingContent
    /\ ~(new.activeLesson # NullRec /\ new.activeQuiz # NullRec)
    /\ ~fetching
    /\ lastTopic # new.activeTopic

\* fetchContent up to its first await: generateLesson(topic) is pending.
\* quizOf is the argument of the generateQuiz call once that is made.
fetchContent(topic) ==
    [pc |-> "lesson", topic |-> topic, lesson |-> NullRec, quizOf |-> Null, current |-> TRUE]

\* A variant that never resets lastTopicRef.
ResetEffectNever(old, new) == FALSE

\* The reset effect of App: currentView changed, and to world_map.
ResetEffectRuns(old, new) ==
    old.currentView # new.currentView /\ new.currentView = "world_map"

\* The session-save effect of useGameState: player changed, and is set.
SaveEffectRuns(old, new) == old.player # new.player /\ new.player # NullRec

\* Timeouts of an unmounted QuizView: setState on it does nothing, so only
\* the chains that end in onComplete still matter.
Orphaned(tm) ==
    LET keep == SelectSeq(tm, LAMBDA c : c.index >= c.total - 1)
    IN [i \in 1..Len(keep) |-> [keep[i] EXCEPT !.live = FALSE]]

\* History: the fetches in flight when a topic activation begins or ends
\* belong to an earlier activation from then on.
Earlier(fs) == {[f EXCEPT !.current = FALSE] : f \in fs}

\* The values a handler leaves behind, before React commits them.
Cur ==
    [state |-> state, fetches |-> fetches, isFetchingRef |-> isFetchingRef,
     lastTopicRef |-> lastTopicRef, quizView |-> quizView, timers |-> timers,
     session |-> session, lessonCalls |-> lessonCalls, quizCalls |-> quizCalls]

\* The commit after a handler: the new state is rendered and the effects
\* whose dependencies changed run, in the order the hooks are declared
\* (session save, fetch, reset).
Render(h) ==
    LET new == h.state
        fetchRuns == FetchEffectRuns(state, new, h.isFetchingRef, h.lastTopicRef)
        quizShown == QuizViewShown(new)
    IN /\ state' = new
       /\ session' = IF SaveEffectRuns(state, new) THEN SavedSession(new.player) ELSE h.session
       /\ fetches' = IF fetchRuns THEN h.fetches \cup {fetchContent(new.activeTopic)}
                     ELSE h.fetches
       /\ isFetchingRef' = (h.isFetchingRef \/ fetchRuns)
       /\ lastTopicRef' = IF ResetEffectRuns(state, new) THEN Null
                          ELSE IF fetchRuns THEN new.activeTopic
                          ELSE h.lastTopicRef
       /\ lessonCalls' = IF new.activeTopic = Null THEN 0
                         ELSE IF fetchRuns THEN h.lessonCalls + 1
                         ELSE h.lessonCalls
       /\ quizCalls' = IF new.activeTopic = Null THEN 0 ELSE h.quizCalls
       /\ quizView' = IF ~quizShown THEN NullRec
                      ELSE IF h.quizView = NullRec THEN FreshQuizView(new.activeQuiz)
                      ELSE h.quizView
       /\ timers' = IF quizShown THEN h.timers ELSE Orphaned(h.timers)
       /\ maxTotalXp' = IF new.player # NullRec /\ new.player.totalXp > maxTotalXp
                        THEN new.player.totalXp ELSE maxTotalXp

\* ---------------------------------------------------------- page load
\* A variant whose catch block leaves the unparsable snapshot in place.
MountKeepsSnapshot ==
    /\ ~mounted
    /\ mounted' = TRUE
    /\ IF session.kind = "player"
       THEN Render([Cur EXCEPT !.state = [state EXCEPT !.player = session.player,
                                             !.isAuthenticated = TRUE,
                                             !.authLoading = FALSE,
                                             !.currentView = "world_map"]])
       ELSE Render([Cur EXCEPT !.state = [state EXCEPT !.authLoading = FALSE]])
    /\ UNCHANGED <<loginTask, trials, store, now, completions, returnedEarly, engine>>

\* The mount effect of useGameState: restore the session snapshot.
Mount ==
    /\ ~mounted
    /\ mounted' = TRUE
    /\ IF session.kind = "player"
       THEN Render([Cur EXCEPT !.state = [state EXCEPT !.player = session.player,
                                             !.isAuthenticated = TRUE,
                                             !.authLoading = FALSE,
                                             !.currentView = "world_map"]])
       ELSE Render([Cur EXCEPT !.state = [state EXCEPT !.authLoading = FALSE],
                               !.session = IF session.kind = "corrupt" THEN NoSession
                                           ELSE session])
    /\ UNCHANGED <<loginTask, trials, store, now, completions, returnedEarly, engine>>

\* ------------------------------------------------------------ sign-in
OnStart ==
    /\ TitleShown(state)
    /\ Render([Cur EXCEPT !.state = startFromTitle(state)])
    /\ UNCHANGED <<mounted, loginTask, trials, store, now, completions, returnedEarly, engine>>

OnBack ==
    /\ LoginShown(state)
    /\ Render([Cur EXCEPT !.state = setView(state, "title")])
    /\ UNCHANGED <<mounted, loginTask, trials, store, now, completions, returnedEarly, engine>>

\* LoginView.handleSubmit -> login(email, password), up to its await.
OnLogin ==
    /\ LoginShown(state)
    /\ loginTask = "none"
    /\ \E credentials \in {"valid", "invalid"} : loginTask' = credentials
    /\ Render([Cur EXCEPT !.state = loginStart(state)])
    /\ UNCHANGED <<mounted, trials, store, now, completions, returnedEarly, engine>>

\* fakeSignIn settles: it throws on bad credentials or a failing store
\* read, returns the stored player, or creates and stores a new one.  When
\* it resolves without a player, login sets nothing.
LoginSettles ==
    /\ loginTask # "none"
    /\ loginTask' = "none"
    /\ \/ /\ loginTask = "invalid"
          /\ Render([Cur EXCEPT !.state = loginFailure(state, "Invalid credentials")])
          /\ UNCHANGED store
       \/ /\ loginTask = "valid"
          /\ Render([Cur EXCEPT !.state = loginFailure(state, "store error")])
          /\ UNCHANGED store
       \/ /\ loginTask = "valid"
          /\ store # StoredNull
          /\ store' = IF store = NullRec THEN newPlayer ELSE store
          /\ Render([Cur EXCEPT !.state = loginSuccess(state, store')])
       \/ /\ loginTask = "valid"
          /\ store = StoredNull
          /\ Render(Cur)
          /\ UNCHANGED store
    /\ UNCHANGED <<mounted, trials, now, completions, returnedEarly, engine>>

OnLogout ==
    /\ WorldMapShown(state)
    /\ Render([Cur EXCEPT !.state = logout(state), !.session = NoSession,
                          !.fetches = Earlier(fetches)])
    /\ UNCHANGED <<mounted, loginTask, trials, store, now, completions, returnedEarly, engine>>

\* ---------------------------------------------------------- world map
OnSelectRegion ==
    /\ WorldMapShown(state)
    /\ \E region \in Regions : Render([Cur EXCEPT !.state = selectRegion(state, region)])
    /\ UNCHANGED <<mounted, loginTask, trials, store, now, completions, returnedEarly, engine>>

OnViewCollection ==
    /\ WorldMapShown(state)
    /\ Render([Cur EXCEPT !.state = viewCollection(state)])
    /\ UNCHANGED <<mounted, loginTask, trials, store, now, completions, returnedEarly, engine>>

\* QuestDialog: a new activation of a topic begins.
OnStartQuest ==
    /\ QuestDialogShown(state)
    /\ \E topic \in RegionTopics(state.activeRegion) :
          Render([Cur EXCEPT !.state = startQuest(state, topic),
                             !.fetches = Earlier(fetches),
                             !.lessonCalls = 0,
                             !.quizCalls = 0])
    /\ UNCHANGED <<mounted, loginTask, trials, store, now, completions, returnedEarly, engine>>

\* Every control App wires to returnToMap: QuestDialog.onClose, the error
\* box of the loading screen, LessonView.onRetreat, QuizView.onRetreat,
\* VictoryScreen.onContinue and AdventureCollection.onBack.
OnReturnToMap ==
    /\ \/ QuestDialogShown(state)
       \/ ErrorBoxShown(state)
       \/ LessonViewShown(state)
       \/ QuizViewShown(state)
       \/ VictoryShown(state)
       \/ CollectionShown(state)
    /\ Render([Cur EXCEPT !.state = returnToMap(state), !.fetches = Earlier(fetches)])
    /\ UNCHANGED <<mounted, loginTask, trials, store, now, completions, returnedEarly, engine>>

\* returnToMap is an unconditional action of the state machine's API, and
\* its contract has it applied while a fetch is in flight.  App renders no
\* control for it on the loading screen until an error shows, so this step
\* belongs to the presentation layer at large (SpecApi) and not to App.
ReturnToMapDuringFetch ==
    /\ AdventureShown(state) /\ ContentPending(state) /\ state.contentError = Null
    /\ Render([Cur EXCEPT !.state = returnToMap(state), !.fetches = Earlier(fetches)])
    /\ UNCHANGED <<mounted, loginTask, trials, store, now, completions, returnedEarly, engine>>

OnStartTrial ==
    /\ LessonViewShown(state)
    /\ Render([Cur EXCEPT !.state = startTrial(state)])
    /\ UNCHANGED <<mounted, loginTask, trials, store, now, completions, returnedEarly, engine>>

\* ------------------------------------------------------ fetchContent
\* The message fetchContent's catch block builds from the error.
errorMessage(kind) ==
    IF kind = "timeout" THEN "The ancient scrolls are taking a while to appear"
    ELSE "Failed to generate adventure"

FetchErrors == {"timeout", "failed"}

\* A variant that hands generateQuiz the lesson's title.
quizInputTitle(lessonData) == lessonData.title

\* The argument fetchContent hands to generateQuiz.
quizInput(lessonData) == lessonData.content

\* generateLesson resolved: fetchContent goes on to call generateQuiz with
\* the lesson's content.
LessonResolves ==
    \E f \in fetches :
        /\ f.pc = "lesson"
        /\ LET lessonData == LessonFor(f.topic)
           IN fetches' = (fetches \ {f}) \cup
                            {[f EXCEPT !.pc = "quiz", !.lesson = lessonData,
                                       !.quizOf = quizInput(lessonData)]}
        /\ quizCalls' = IF f.current THEN quizCalls + 1 ELSE quizCalls
        /\ UNCHANGED <<mounted, state, isFetchingRef, lastTopicRef, loginTask, quizView,
                       timers, trials, session, store, now, lessonCalls, maxTotalXp, completions, returnedEarly, engine>>

\* generateLesson or generateQuiz rejected, or withTimeout rejected for it:
\* catch, then finally.
FetchRejects ==
    \E f \in fetches, kind \in FetchErrors :
        /\ Render([Cur EXCEPT !.state = setContentError(state, errorMessage(kind)),
                              !.fetches = fetches \ {f},
                              !.isFetchingRef = FALSE])
        /\ UNCHANGED <<mounted, loginTask, trials, store, now, completions, returnedEarly, engine>>

\* generateQuiz resolved: setLessonContent, then finally.
QuizResolves ==
    \E f \in fetches :
        /\ f.pc = "quiz"
        /\ Render([Cur EXCEPT !.state = setLessonContent(state, f.lesson, QuizFor(f.quizOf)),
                              !.fetches = fetches \ {f},
                              !.isFetchingRef = FALSE])
        /\ UNCHANGED <<mounted, loginTask, trials, store, now, completions, returnedEarly, engine>>

\* ---------------------------------------------------------- QuizView
finalScore(answers) == Cardinality({i \in DOMAIN answers : answers[i] = "right"})

\* handleAnswerSelect(option): records the answer, shows the feedback and
\* sets the 1500 ms timeout.  The timeout's closure keeps this render's
\* newAnswers, currentQuestionIndex and onComplete (completeTrial, which
\* itself closes over this render's state).
HandleAnswerSelect ==
    /\ QuizViewShown(state)
    /\ ~quizView.showFeedback
    /\ Len(timers) < MaxTimers
    /\ quizView.currentQuestionIndex >= state.activeQuiz.length - 1 => completions < MaxTrials
    /\ completions' = IF quizView.currentQuestionIndex >= state.activeQuiz.length - 1
                      THEN completions + 1 ELSE completions
    /\ \E option \in {"right", "wrong"} :
          LET index == quizView.currentQuestionIndex
              newAnswers == [quizView.selectedAnswers EXCEPT ![index] = option]
          IN /\ quizView' = [quizView EXCEPT !.selectedAnswers = newAnswers,
                                             !.showFeedback = TRUE]
             /\ timers' = Append(timers,
                    [stage |-> 1, index |-> index, score |-> finalScore(newAnswers),
                     total |-> state.activeQuiz.length, live |-> TRUE,
                     onComplete |-> [player |-> state.player,
                                     activeTopic |-> state.activeTopic,
                                     activeLesson |-> state.activeLesson]])
    /\ UNCHANGED <<mounted, state, isFetchingRef, lastTopicRef, fetches, loginTask, trials,
                   session, store, now, lessonCalls, quizCalls, maxTotalXp, returnedEarly, engine>>

\* The 1500 ms timeout: the feedback is hidden and the 100 ms timeout set.
FeedbackTimeout ==
    /\ timers # <<>>
    /\ Head(timers).stage = 1
    /\ timers' = <<[Head(timers) EXCEPT !.stage = 2]>> \o Tail(timers)
    /\ quizView' = IF Head(timers).live THEN [quizView EXCEPT !.showFeedback = FALSE]
                   ELSE quizView
    /\ UNCHANGED <<mounted, state, isFetchingRef, lastTopicRef, fetches, loginTask, trials,
                   session, store, now, lessonCalls, quizCalls, maxTotalXp, completions, returnedEarly, engine>>

\* The 100 ms timeout before the last question: the next question.
NextQuestionTimeout ==
    /\ timers # <<>>
    /\ Head(timers).stage = 2
    /\ Head(timers).index < Head(timers).total - 1
    /\ timers' = Tail(timers)
    /\ quizView' = IF Head(timers).live
                   THEN [quizView EXCEPT !.currentQuestionIndex = Head(timers).index + 1]
                   ELSE quizView
    /\ UNCHANGED <<mounted, state, isFetchingRef, lastTopicRef, fetches, loginTask, trials,
                   session, store, now, lessonCalls, quizCalls, maxTotalXp, completions, returnedEarly, engine>>

\* The 100 ms timeout on the last question: onComplete(finalScore,
\* quiz.length), that is completeTrial up to its await.  Date.now() reads
\* the clock, which has not gone back since it was last read.
CompleteTimeout ==
    /\ timers # <<>>
    /\ Head(timers).stage = 2
    /\ Head(timers).index >= Head(timers).total - 1
    /\ timers' = Tail(timers)
    /\ \E timestamp \in now..MaxClock :
          /\ now' = timestamp
          /\ LET c == Head(timers)
                 t == completeTrialCall(c.onComplete, c.score, c.total, timestamp)
             IN /\ trials' = IF t = NullRec THEN trials ELSE Append(trials, t)
                /\ returnedEarly' = (returnedEarly \/ t = NullRec)
                /\ UNCHANGED engine
    /\ UNCHANGED <<mounted, state, isFetchingRef, lastTopicRef, fetches, loginTask, quizView,
                   session, store, lessonCalls, quizCalls, maxTotalXp, completions>>

\* updatePlayerData settles (the write took effect, or it threw and the
\* error was logged) and completeTrial applies its result.
TrialSettles ==
    /\ trials # <<>>
    /\ trials' = Tail(trials)
    /\ \E written \in BOOLEAN :
          store' = IF written THEN Head(trials).updatedPlayer ELSE store
    /\ Render([Cur EXCEPT !.state = completeTrialApply(state, Head(trials))])
    /\ UNCHANGED <<mounted, loginTask, now, completions, returnedEarly, engine>>

\* completeTrial(score, total) is an action of the state machine's API; a
\* presentation layer can call it when the state it renders lacks the
\* player, the topic or the lesson (QuizView of App never does, its closure
\* always holds all three).  The precondition check returns and nothing is
\* set.
OnCompleteWithoutQuest ==
    /\ mounted
    /\ \E score \in 0..QuizLen :
          completeTrialCall([player |-> state.player, activeTopic |-> state.activeTopic,
                             activeLesson |-> state.activeLesson], score, QuizLen, now) = NullRec
    /\ returnedEarly' = TRUE
    /\ UNCHANGED engine
    /\ UNCHANGED <<mounted, state, isFetchingRef, lastTopicRef, fetches, loginTask, quizView,
                   timers, trials, session, store, now, lessonCalls, quizCalls, maxTotalXp,
                   completions>>

\* ------------------------------------------------------ specifications
FetchSettles == LessonResolves \/ FetchRejects \/ QuizResolves

\* The application: the state machine driven by the controls App renders.
Next ==
    \/ Mount
    \/ OnStart \/ OnBack \/ OnLogin \/ LoginSettles \/ OnLogout
    \/ OnSelectRegion \/ OnViewCollection \/ OnStartQuest \/ OnReturnToMap \/ OnStartTrial
    \/ LessonResolves \/ FetchRejects \/ QuizResolves
    \/ HandleAnswerSelect \/ FeedbackTimeout \/ NextQuestionTimeout \/ CompleteTimeout
    \/ TrialSettles

Spec == Init /\ [][Next]_vars

\* The state machine driven by any presentation layer: returnToMap may come
\* while a fetch is in flight.  One quiz is answered to its end.
AnswerOnce == completions < MaxApiTrials /\ HandleAnswerSelect

NextApi ==
    \/ Mount
    \/ OnStart \/ OnBack \/ OnLogin \/ LoginSettles \/ OnLogout
    \/ OnSelectRegion \/ OnViewCollection \/ OnStartQuest \/ OnReturnToMap \/ OnStartTrial
    \/ ReturnToMapDuringFetch \/ OnCompleteWithoutQuest
    \/ LessonResolves \/ FetchRejects \/ QuizResolves
    \/ AnswerOnce \/ FeedbackTimeout \/ NextQuestionTimeout \/ CompleteTimeout
    \/ TrialSettles

SpecApi == Init /\ [][NextApi]_vars

\* Every provider call returns, fails or is rejected by withTimeout.
FairSpecApi == SpecApi /\ WF_vars(FetchSettles)

\* ------------------------------------------- the progression engine alone
\* A caller of services/gameService applies one of its functions to the
\* arguments of a call; the game is not running.
Called(fn) == engine.fn = fn /\ ~engine.done
Return(result) ==
    /\ engine' = [engine EXCEPT !.done = TRUE, !.result = result]
    /\ UNCHANGED gameVars

CallCalculateLevel ==
    /\ Called("calculateLevel")
    /\ Return(calculateLevel(engine.args[1]))

CallXpProgress ==
    /\ Called("xpProgress")
    /\ Return(xpProgress(engine.args[1]))

CallCurrentLevelXp ==
    /\ Called("currentLevelXp")
    /\ Return(currentLevelXp(engine.args[1]))

CallXpToNextLevel ==
    /\ Called("xpToNextLevel")
    /\ Return(xpToNextLevel(engine.args[1]))

CallCalculateQuizXp ==
    /\ Called("calculateQuizXp")
    /\ Return(calculateQuizXp(engine.args[1], engine.args[2]))

CallCalculateAdventureXp ==
    /\ Called("calculateAdventureXp")
    /\ Return(calculateAdventureXp(engine.args[1], engine.args[2]))

CallGetPlayerRank ==
    /\ Called("getPlayerRank")
    /\ Return(getPlayerRank(engine.args[1]))

InitEngine ==
    /\ InitGame /\ session = NoSession /\ store = NullRec
    /\ engine \in EngineCalls

NextEngine ==
    \/ CallCalculateLevel
    \/ CallXpProgress
    \/ CallCurrentLevelXp
    \/ CallXpToNextLevel
    \/ CallCalculateQuizXp
    \/ CallCalculateAdventureXp
    \/ CallGetPlayerRank

SpecEngine == InitEngine /\ [][NextEngine]_vars

\* ============================================================== claims

\* C1: for each activation of a topic (from startQuest(topic) until the
\* quest context is cleared) the content-fetch sequence runs exactly once:
\* exactly one generateLesson call and, once its lesson has resolved,
\* exactly one generateQuiz call.
C1_FetchExactlyOnce ==
    state.activeTopic # Null =>
        /\ lessonCalls = 1
        /\ quizCalls <= 1
        /\ (state.activeLesson # NullRec \/ \E f \in fetches : f.current /\ f.pc = "quiz")
              => quizCalls = 1

\* C2: a late completion of an earlier quest's fetch does not overwrite the
\* content of the quest started after it: a non-null activeLesson is the
\* lesson generated for the current activeTopic, and activeQuiz the quiz
\* generated from it.
C2_LessonOfActiveTopic ==
    state.activeTopic # Null /\ state.activeLesson # NullRec =>
        /\ state.activeLesson = LessonFor(state.activeTopic)
        /\ state.activeQuiz = QuizFor(state.activeLesson.content)

\* C3: in every reachable state with a player, in memory or in the store,
\* level is calculateLevel(totalXp) and xp is totalXp less the XP needed to
\* reach that level.
Derived(player) ==
    /\ player.level = calculateLevel(player.totalXp)
    /\ player.xp = player.totalXp - totalXpForLevel(player.level)

C3_LevelAndXpDerived ==
    /\ state.player # NullRec => Derived(state.player)
    /\ store \notin {NullRec, StoredNull} => Derived(store)
    /\ \A i \in 1..Len(trials) : Derived(trials[i].updatedPlayer)

\* C3 witness: a completed trial has taken the player past level 1.
C3_Witness ==
    /\ state.player # NullRec
    /\ state.player.level = 2
    /\ state.player.xp = state.player.totalXp - XP_PER_LEVEL
    /\ state.player.completedAdventures # <<>>

\* C4: after completeTrial, previousLevel is the level the player had before
\* the XP was applied, leveledUp is true exactly when the updated player's
\* level is greater, and xpEarned is the new record's xpEarned; a player
\* with totalXp 80 and a perfect 3/3 ends at totalXp 185, level 2, with
\* leveledUp and previousLevel 1.
C4_Example ==
    LET player80 == applyXpToPlayer(newPlayer, 80)
        t == completeTrialCall([player |-> player80, activeTopic |-> "Volcanoes",
                                activeLesson |-> LessonFor("Volcanoes")], 3, 3, 0)
        after == completeTrialApply(initialState, t)
    IN /\ after.player.totalXp = 185
       /\ after.player.level = 2
       /\ after.previousLevel = 1
       /\ after.leveledUp
       /\ after.xpEarned = 105

C4_LevelUpDetection ==
    /\ C4_Example
    /\ state.currentView = "victory" =>
          /\ state.player # NullRec
          /\ state.player.completedAdventures # <<>>
          /\ LET record == state.player.completedAdventures[Len(state.player.completedAdventures)]
             IN /\ state.xpEarned = record.xpEarned
                /\ state.previousLevel = calculateLevel(state.player.totalXp - record.xpEarned)
                /\ state.leveledUp <=> (state.player.level > state.previousLevel)

\* C4 witness: the victory state of a trial that raised the level.
C4_Witness ==
    /\ state.currentView = "victory"
    /\ state.leveledUp
    /\ state.previousLevel = 1
    /\ state.player.level = 2
    /\ state.xpEarned = 105

\* C5: completedAdventures is append-only within a session: from one state
\* to the next, the player's list is a prefix of the player's new list.
IsPrefix(s, t) == Len(s) <= Len(t) /\ \A i \in 1..Len(s) : s[i] = t[i]

C5_AppendOnly ==
    [][state.player # NullRec /\ state'.player # NullRec =>
         IsPrefix(state.player.completedAdventures, state'.player.completedAdventures)]_vars

\* C6: totalXp never decreases: the player's totalXp is at least every value
\* observed on the player earlier, across completeTrial, returnToMap, logout
\* and login, whether writes succeed or fail.
C6_TotalXpMonotonic ==
    state.player # NullRec => state.player.totalXp >= maxTotalXp

\* C7: isGeneratingContent cannot stay true: whenever it is true it is
\* false at some later point, given that every provider call returns, fails
\* or is rejected by the timeout wrapper.
C7_GeneratingEnds == state.isGeneratingContent ~> ~state.isGeneratingContent

\* C7 witness: a fetch has delivered its lesson after returnToMap was
\* applied while it was in flight.
C7_Witness ==
    /\ ~state.isGeneratingContent
    /\ state.activeTopic = Null
    /\ state.activeLesson # NullRec
    /\ fetches = {}

\* C8: when no fetch is in flight (the earlier quest was completed or has
\* failed) and a quest is started from the quest dialog, a fresh fetch
\* begins for its topic, also when it is the topic fetched last.
C8_FreshFetchOnRestart ==
    [][(state.currentView = "quest_intro" /\ state'.currentView = "adventure"
          /\ fetches = {})
       => fetches' = {fetchContent(state'.activeTopic)}]_vars

\* C8 witness: a topic the player has completed is being fetched again.
C8_Witness ==
    /\ state.player # NullRec
    /\ \E f \in fetches :
          /\ f.current /\ f.pc = "lesson" /\ f.topic = state.activeTopic
          /\ \E i \in 1..Len(state.player.completedAdventures) :
                state.player.completedAdventures[i].topic = f.topic

\* C9: within a fetch sequence generateQuiz is called only when
\* generateLesson has resolved, with that lesson's content, and the quiz
\* delivered with a lesson is the one generated from its content.
C9_QuizAfterLesson ==
    /\ \A f \in fetches :
          /\ f.pc = "lesson" => f.lesson = NullRec /\ f.quizOf = Null
          /\ f.pc = "quiz" => f.lesson = LessonFor(f.topic) /\ f.quizOf = f.lesson.content
    /\ quizCalls <= lessonCalls
    /\ state.activeQuiz # NullRec =>
          state.activeLesson # NullRec /\ state.activeQuiz = QuizFor(state.activeLesson.content)

\* C9 witness: generateQuiz is pending, called with the resolved lesson's
\* content.
C9_Witness ==
    \E f \in fetches : f.pc = "quiz" /\ f.current /\ f.quizOf = LessonFor(f.topic).content

\* C10: when the persistence write of completeTrial fails, the state still
\* goes to victory with the updated player and no error is set, and the
\* progress the store does not hold stays on the in-memory player for the
\* rest of the session.
Records(player) == {player.completedAdventures[i] : i \in 1..Len(player.completedAdventures)}

Unsaved == IF state.player = NullRec THEN {}
           ELSE IF store = NullRec THEN Records(state.player)
           ELSE Records(state.player) \ Records(store)

C10_WriteFailureKeepsProgress ==
    [][/\ (trials # <<>> /\ trials' = Tail(trials) /\ store' # Head(trials).updatedPlayer) =>
            /\ state'.currentView = "victory"
            /\ state'.player = Head(trials).updatedPlayer
            /\ state'.contentError = state.contentError
            /\ state'.authError = state.authError
       /\ (Unsaved # {} /\ state'.player # NullRec) =>
            /\ Unsaved \subseteq Records(state'.player)
            /\ state'.player.totalXp >= state.player.totalXp]_vars

\* C11: completeTrial does not wait for the persistence write: while an
\* updatePlayerData call is pending, the state already shows victory and
\* the in-memory player already holds that call's record.
C11_UpdateBeforeWriteSettles ==
    \A i \in 1..Len(trials) :
        /\ state.player # NullRec
        /\ trials[i].adventure \in Records(state.player)
        /\ state.currentView = "victory"

\* C12: completeTrial called while player, activeTopic or activeLesson is
\* absent raises a precondition error, it does not just return, and leaves
\* the state unchanged.
C12_PreconditionFailsLoudly ==
    [][OnCompleteWithoutQuest => ~returnedEarly' /\ state' = state]_vars

\* C13: when sign-in succeeds, login sets player to the returned player,
\* isAuthenticated to true and currentView to world_map.
SignedIn == LoginSettles /\ state'.authError = Null /\ store' \notin {NullRec, StoredNull}

C13_LoginSuccess ==
    [][SignedIn =>
         /\ state'.player = (IF store = NullRec THEN newPlayer ELSE store)
         /\ state'.isAuthenticated
         /\ state'.currentView = "world_map"]_vars

\* C13 witness: a second sign-in has loaded the stored player, after a
\* write of the first session was lost.
C13_Witness ==
    /\ state.isAuthenticated
    /\ state.currentView = "world_map"
    /\ state.player = store
    /\ state.player.totalXp < maxTotalXp

\* C14: when sign-in fails, login sets authError to a message and changes
\* nothing else but authLoading: currentView stays login, player stays
\* null and isAuthenticated stays false.
SignInFailed == LoginSettles /\ state'.authError # Null

C15_AuthLoadingReset == [][LoginSettles => ~state'.authLoading]_vars

\* C16: startQuest(topic) only updates the state: activeTopic = topic,
\* activeLesson and activeQuiz null, isGeneratingContent true, contentError
\* null, currentView adventure, all else unchanged.  It makes no provider
\* call itself: when the fetch effect's guard holds the effect back, the
\* step begins no fetch.
C16_StartQuestIsStateOnly ==
    [][OnStartQuest =>
         /\ \E topic \in Topics :
               state' = [state EXCEPT !.activeTopic = topic, !.activeLesson = NullRec,
                                      !.activeQuiz = NullRec, !.isGeneratingContent = TRUE,
                                      !.contentError = Null, !.currentView = "adventure"]
         /\ isFetchingRef => fetches' = Earlier(fetches) /\ lessonCalls' = 0]_vars

\* C16 witness: a quest has been started and no provider call was made.
C16_Witness ==
    /\ state.currentView = "adventure"
    /\ state.activeTopic # Null
    /\ state.isGeneratingContent
    /\ state.activeLesson = NullRec
    /\ lessonCalls = 0

\* C17: a fetch sequence ends in exactly one of setLessonContent (lesson
\* and quiz set, contentError untouched) and setContentError (contentError
\* set, lesson and quiz untouched), and isGeneratingContent is false after
\* either.
Delivered ==
    /\ state'.activeLesson # NullRec /\ state'.activeQuiz # NullRec
    /\ state'.contentError = state.contentError

Errored ==
    /\ state'.contentError # Null
    /\ state'.activeLesson = state.activeLesson /\ state'.activeQuiz = state.activeQuiz

C17_OneTerminalOutcome ==
    [][(FetchRejects \/ QuizResolves) =>
         /\ Cardinality(fetches') = Cardinality(fetches) - 1
         /\ Delivered \/ Errored
         /\ ~(Delivered /\ Errored)
         /\ ~state'.isGeneratingContent]_vars

\* C17 witness: a fetch has ended by delivering its lesson and quiz.
C17_Witness ==
    /\ fetches = {}
    /\ state.activeTopic # Null
    /\ state.activeLesson = LessonFor(state.activeTopic)
    /\ state.activeQuiz # NullRec
    /\ state.contentError = Null
    /\ ~state.isGeneratingContent

\* C18: a failure or timeout of generateLesson or generateQuiz ends in a
\* non-null contentError and isGeneratingContent = false, with currentView
\* unchanged (the adventure view) and no lesson or quiz set.
C18_ContentErrorSurfaced ==
    [][FetchRejects =>
         /\ state'.contentError # Null
         /\ state' = [state EXCEPT !.isGeneratingContent = FALSE,
                                    !.contentError = state'.contentError]
         /\ state'.currentView = "adventure"
         /\ state'.activeLesson = NullRec /\ state'.activeQuiz = NullRec]_vars

\* C19: returnToMap, from any view, sets currentView to world_map and
\* clears activeRegion, activeTopic, activeLesson, activeQuiz and the
\* victory fields xpEarned, leveledUp and previousLevel; player and
\* isAuthenticated are unchanged.
C19_ReturnToMapClearsQuest ==
    [][(OnReturnToMap \/ ReturnToMapDuringFetch) =>
         /\ state'.currentView = "world_map"
         /\ state'.activeRegion = Null /\ state'.activeTopic = Null
         /\ state'.activeLesson = NullRec /\ state'.activeQuiz = NullRec
         /\ state'.xpEarned = initialState.xpEarned
         /\ state'.leveledUp = initialState.leveledUp
         /\ state'.previousLevel = initialState.previousLevel
         /\ state'.player = state.player
         /\ state'.isAuthenticated = state.isAuthenticated]_vars

\* C20: after returnToMap contentError is null.
C20_ReturnToMapClearsError ==
    [][(OnReturnToMap \/ ReturnToMapDuringFetch) => state'.contentError = Null]_vars

\* C21: logout sets currentView to title, player to null and
\* isAuthenticated to false, clears activeRegion, activeTopic,
\* activeLesson, activeQuiz and the victory fields, and removes the
\* persisted session snapshot.
C21_LogoutClearsSession ==
    [][OnLogout =>
         /\ state'.currentView = "title"
         /\ state'.player = NullRec /\ ~state'.isAuthenticated
         /\ state'.activeRegion = Null /\ state'.activeTopic = Null
         /\ state'.activeLesson = NullRec /\ state'.activeQuiz = NullRec
         /\ state'.xpEarned = initialState.xpEarned
         /\ state'.leveledUp = initialState.leveledUp
         /\ state'.previousLevel = initialState.previousLevel
         /\ session' = NoSession]_vars

\* C22: currentView changes only along the transition table: title to
\* login or world_map, login to world_map, world_map to quest_intro,
\* collection or title, quest_intro to adventure, adventure to trial,
\* trial to victory, victory to world_map, collection to world_map, and
\* any view to world_map by returnToMap; no step of the program, a setView
\* or the completion of an asynchronous action included, changes it
\* otherwise.
LegalTransitions ==
    { <<"title", "login">>, <<"title", "world_map">>, <<"login", "world_map">>,
      <<"world_map", "quest_intro">>, <<"world_map", "collection">>,
      <<"world_map", "title">>, <<"quest_intro", "adventure">>,
      <<"adventure", "trial">>, <<"trial", "victory">>, <<"victory", "world_map">>,
      <<"collection", "world_map">> }

C22_LegalTransitionsOnly ==
    [][state'.currentView # state.currentView =>
         \/ <<state.currentView, state'.currentView>> \in LegalTransitions
         \/ /\ OnReturnToMap \/ ReturnToMapDuringFetch
            /\ state'.currentView = "world_map"]_vars

\* C23: startTrial moves to trial only when activeLesson and activeQuiz
\* are both present, and in every reachable state whose currentView is
\* trial both are non-null.
C23_TrialHasContent ==
    /\ [](state.currentView = "trial" =>
            state.activeLesson # NullRec /\ state.activeQuiz # NullRec)
    /\ [][OnStartTrial =>
            /\ state.activeLesson # NullRec /\ state.activeQuiz # NullRec
            /\ state'.currentView = "trial"]_vars

C23_Witness ==
    /\ state.currentView = "trial"
    /\ state.activeLesson = LessonFor(state.activeTopic)
    /\ quizView # NullRec

\* A call of fn has returned.
Returned(fn) == engine.fn = fn /\ engine.done

\* C24: for every totalXp >= 0, calculateLevel(totalXp) is the greatest
\* level >= 1 with totalXpForLevel(level) <= totalXp; 0 and 99 give level
\* 1, 100 and 299 give level 2, 300 gives level 3.
C24_LevelIsGreatest ==
    Returned("calculateLevel") =>
        LET totalXp == engine.args[1]
            level == engine.result
        IN /\ level >= 1
           /\ totalXpForLevel(level) <= totalXp
           /\ \A l \in 1..MaxLevel : totalXpForLevel(l) <= totalXp => l <= level
           /\ totalXp \in {0, 99} => level = 1
           /\ totalXp \in {100, 299} => level = 2
           /\ totalXp = 300 => level = 3

C24_Witness ==
    Returned("calculateLevel") /\ engine.args[1] = 300 /\ engine.result = 3

\* C25: calculateLevel is monotonic: a greater totalXp never gives a
\* lesser level.
C25_LevelMonotonic ==
    Returned("calculateLevel") =>
        /\ \A lessXp \in 0..engine.args[1] : calculateLevel(lessXp) <= engine.result
        /\ \A moreXp \in engine.args[1]..MaxXp : engine.result <= calculateLevel(moreXp)

C25_Witness ==
    /\ Returned("calculateLevel") /\ engine.args[1] = 299 /\ engine.result = 2
    /\ calculateLevel(300) = 3 /\ calculateLevel(100) = 2 /\ calculateLevel(99) = 1

\* C26: for every totalXp >= 0,
\* totalXpForLevel(calculateLevel(totalXp)) + currentLevelXp(totalXp) = totalXp.
C26_RoundTrip ==
    Returned("currentLevelXp") =>
        totalXpForLevel(calculateLevel(engine.args[1])) + engine.result = engine.args[1]

C26_Witness ==
    Returned("currentLevelXp") /\ engine.args[1] = 450 /\ engine.result = 150

\* C27: 0 <= currentLevelXp(totalXp) < xpToNextLevel(totalXp), and
\* xpToNextLevel(totalXp) = 100 * calculateLevel(totalXp), so that
\* xpProgress(totalXp) is at least 0 and less than 1.
C27_ProgressInUnitInterval ==
    LET totalXp == engine.args[1]
    IN /\ Returned("currentLevelXp") =>
              0 <= engine.result /\ engine.result < xpToNextLevel(totalXp)
       /\ Returned("xpToNextLevel") =>
              /\ engine.result = 100 * calculateLevel(totalXp)
              /\ 0 <= currentLevelXp(totalXp) /\ currentLevelXp(totalXp) < engine.result
       /\ Returned("xpProgress") =>
              /\ engine.result.num = currentLevelXp(totalXp)
              /\ engine.result.den = xpToNextLevel(totalXp)
              /\ 0 <= engine.result.num /\ engine.result.num < engine.result.den

C27_Witness ==
    Returned("xpProgress") /\ engine.args[1] = 299 /\ engine.result = [num |-> 199, den |-> 200]

\* C28: for 0 <= correct <= total and total >= 1,
\* calculateQuizXp(correct, total) = correct * 10 + (25 if correct = total,
\* else 0) and calculateAdventureXp(correct, total) is 50 more; 3 of 3
\* gives 55 and 105, 2 of 3 gives 20 and 70, 0 of 3 gives 0 and 50.
QuizXpClaimed(correct, total) == correct * 10 + (IF correct = total THEN 25 ELSE 0)

C28_QuizAndAdventureXp ==
    LET correct == engine.args[1]
        total == engine.args[2]
        Example(c, t, xp) == (correct = c /\ total = t) => engine.result = xp
    IN /\ (Returned("calculateQuizXp") /\ correct <= total /\ total >= 1) =>
              /\ engine.result = QuizXpClaimed(correct, total)
              /\ Example(3, 3, 55) /\ Example(2, 3, 20) /\ Example(0, 3, 0)
       /\ (Returned("calculateAdventureXp") /\ correct <= total /\ total >= 1) =>
              /\ engine.result = 50 + QuizXpClaimed(correct, total)
              /\ Example(3, 3, 105) /\ Example(2, 3, 70) /\ Example(0, 3, 50)

C28_Witness ==
    Returned("calculateAdventureXp") /\ engine.args = <<2, 3>> /\ engine.result = 70

\* C29: a quiz of no questions is not a perfect score:
\* calculateQuizXp(0, 0) awards no bonus and is 0, and
\* calculateAdventureXp(0, 0) = 50.
C29_EmptyQuizNoBonus ==
    /\ (Returned("calculateQuizXp") /\ engine.args = <<0, 0>>) => engine.result = 0
    /\ (Returned("calculateAdventureXp") /\ engine.args = <<0, 0>>) => engine.result = 50

\* C30: getPlayerRank(level) is the step function over the breakpoints 1,
\* 5, 10, 15, 20, 30, 40 and 50: levels 1 to 4 Novice Adventurer, 5 to 9
\* Eager Apprentice, 10 to 14 Proven Pathfinder, 15 to 19 Skilled Seeker,
\* 20 to 29 Seasoned Traveler, 30 to 39 Grand Adventurer, 40 to 49 Master
\* Explorer, 50 and above Legendary Scholar; it agrees with LEVEL_TITLES at
\* the greatest breakpoint not above the level.
Greatest(S) == CHOOSE b \in S : \A c \in S : c <= b

RankClaimed(level) ==
    CASE level \in 1..4 -> "Novice Adventurer"
      [] level \in 5..9 -> "Eager Apprentice"
      [] level \in 10..14 -> "Proven Pathfinder"
      [] level \in 15..19 -> "Skilled Seeker"
      [] level \in 20..29 -> "Seasoned Traveler"
      [] level \in 30..39 -> "Grand Adventurer"
      [] level \in 40..49 -> "Master Explorer"
      [] level >= 50 -> "Legendary Scholar"

C30_RankStepFunction ==
    Returned("getPlayerRank") =>
        LET level == engine.args[1]
        IN /\ engine.result = RankClaimed(level)
           /\ DOMAIN LEVEL_TITLES = {1, 5, 10, 15, 20, 30, 40, 50}
           /\ engine.result =
                  LEVEL_TITLES[Greatest({b \in DOMAIN LEVEL_TITLES : b <= level})]

C30_Witness ==
    Returned("getPlayerRank") /\ engine.args = <<37>> /\ engine.result = "Grand Adventurer"

\* C31: every call of createCompletedAdventure yields an id different from
\* the id of every other call, two calls for the same topic at the same
\* millisecond included: the records of calls still awaiting the store
\* have pairwise different ids, none of them is the id of a record the
\* player already holds unless it is that very call's record, and no two
\* records in a player's completedAdventures share an id.
DistinctIds(records) ==
    \A i, j \in DOMAIN records : i # j => records[i].id # records[j].id

C31_AdventureIdsUnique ==
    /\ DistinctIds([i \in DOMAIN trials |-> trials[i].adventure])
    /\ state.player # NullRec => DistinctIds(state.player.completedAdventures)
    /\ store \notin {NullRec, StoredNull} => DistinctIds(store.completedAdventures)

\* C32: every completeTrial call that passed its preconditions takes effect
\* exactly once on the current player: when its result is applied the
\* player has exactly one more record than just before, the new last
\* record is the call's, and totalXp is larger by exactly that record's
\* xpEarned, also when two calls overlap.
C32_CompletionAppliedOnce ==
    [][TrialSettles =>
         /\ state.player # NullRec
         /\ state'.player.completedAdventures =
                Append(state.player.completedAdventures, Head(trials).adventure)
         /\ state'.player.totalXp = state.player.totalXp + Head(trials).adventure.xpEarned]_vars

\* C33: quest context exists only during a quest: in every reachable state
\* whose currentView is world_map, title, login or collection,
\* activeTopic, activeLesson and activeQuiz are all null, also when a
\* fetch started earlier completes after the return to the map or the
\* logout.
C33_NoQuestContextOutsideQuest ==
    state.currentView \in {"world_map", "title", "login", "collection"} =>
        /\ state.activeTopic = Null
        /\ state.activeLesson = NullRec
        /\ state.activeQuiz = NullRec

\* C34: at startup the session snapshot is read once.  If it deserializes
\* to a record with a player, the state becomes player = that player,
\* isAuthenticated = true, currentView = world_map, authLoading = false;
\* if it is absent or has no player, the state stays unauthenticated on
\* the title view with authLoading = false; if deserialization fails the
\* snapshot is removed and authLoading becomes false.
C34_SessionRestore ==
    [][Mount =>
         /\ ~mounted /\ mounted'
         /\ session.kind = "player" =>
                state' = [state EXCEPT !.player = session.player,
                                       !.isAuthenticated = TRUE,
                                       !.currentView = "world_map",
                                       !.authLoading = FALSE]
         /\ session.kind \in {"none", "object"} =>
                /\ state' = [state EXCEPT !.authLoading = FALSE]
                /\ state'.player = NullRec /\ ~state'.isAuthenticated
                /\ state'.currentView = "title"
         /\ session.kind = "corrupt" => session' = NoSession /\ ~state'.authLoading]_vars

C34_Witness ==
    /\ mounted
    /\ state = [initialState EXCEPT !.player = newPlayer, !.isAuthenticated = TRUE,
                                    !.currentView = "world_map", !.authLoading = FALSE]
    /\ session = SavedSession(newPlayer)

\* C35: after logout the player stays null and no session snapshot is
\* written again until a later successful login, under every
\* interleaving, a completeTrial whose store write was pending when logout
\* ran included: from a signed-out state every step other than the
\* settling of a login leaves player null and the snapshot as it is.
C35_LoggedOutStaysLoggedOut ==
    [][(mounted /\ ~state.isAuthenticated /\ state.player = NullRec /\ ~LoginSettles) =>
           (state'.player = NullRec /\ session' = session)]_vars

\* C36: in every reachable state isAuthenticated is true exactly when
\* player is non-null.
C36_AuthenticatedIffPlayer ==
    state.isAuthenticated <=> state.player # NullRec

\* C37: in every reachable state the data the current view needs to render
\* is present: world_map and collection imply player; quest_intro implies
\* player and activeRegion; adventure implies activeTopic; trial implies
\* activeTopic and activeQuiz; victory implies player, activeTopic and
\* activeLesson; also when returnToMap is issued while completeTrial
\* awaits the store.
C37_ViewHasItsData ==
    LET view == state.currentView
    IN /\ view \in {"world_map", "collection"} => state.player # NullRec
       /\ view = "quest_intro" => state.player # NullRec /\ state.activeRegion # Null
       /\ view = "adventure" => state.activeTopic # Null
       /\ view = "trial" => state.activeTopic # Null /\ state.activeQuiz # NullRec
       /\ view = "victory" =>
              /\ state.player # NullRec
              /\ state.activeTopic # Null
              /\ state.activeLesson # NullRec

\* C38: for a player created fresh by sign-in (totalXp = 0, no
\* adventures), in every reachable state player.totalXp equals the sum of
\* xpEarned over player.completedAdventures.
RECURSIVE SumXpEarned(_)
SumXpEarned(records) ==
    IF records = <<>> THEN 0 ELSE Head(records).xpEarned + SumXpEarned(Tail(records))

C38_TotalXpIsSumOfRecords ==
    state.player # NullRec =>
        state.player.totalXp = SumXpEarned(state.player.completedAdventures)

C38_Witness ==
    /\ state.player # NullRec
    /\ Len(state.player.completedAdventures) = 2
    /\ state.player.totalXp = SumXpEarned(state.player.completedAdventures)
    /\ state.player.level = 2

\* C39: at most one content-fetch sequence is in flight at any time: a new
\* fetch is never started while isFetchingRef is true, and isFetchingRef
\* is false again when the sequence has ended, by success or by error.
Started(f) == f.pc = "lesson" /\ f.current

C39_OneFetchInFlight ==
    /\ [](Cardinality(fetches) <= 1 /\ (isFetchingRef <=> fetches # {}))
    /\ [][(\E f \in fetches' \ fetches : Started(f)) =>
              ~isFetchingRef /\ isFetchingRef']_vars
    /\ [][(QuizResolves \/ FetchRejects) => ~isFetchingRef' /\ fetches' = {}]_vars

C39_Witness ==
    /\ isFetchingRef
    /\ state.isGeneratingContent /\ state.activeTopic # Null
    /\ \E f \in fetches : f.topic # state.activeTopic

====
